---------------------------- MODULE Spec2Model ----------------------------
(***************************************************************************)
(* Model of src/app.py: a Streamlit page that loads five plan documents    *)
(* once (st.cache_data), lets the user pick up to two of them and a        *)
(* question, sends one chat-completion request and renders the reply.      *)
(*                                                                         *)
(* Python str values are TLA+ strings; TLC evaluates Len, Head, Tail,      *)
(* SubSeq and \o on them character by character.                           *)
(***************************************************************************)
EXTENDS Integers, Sequences, FiniteSets, TLC

VARIABLES
    disk,             \* the data folder: [version, ok]
    cache,            \* the st.cache_data entry of load_data: [loaded, plans]
    reads,            \* how many times load_data's body read the data folder
    loads,            \* how many times load_data's body ran to its return
    plans_data,       \* module global plans_data of the current script run
    selected_plans,   \* value of the multiselect (run_jamba_query: plan_names)
    question,         \* value of the text input
    phase,            \* where the session's script run stands
    submits,          \* presses of 'Compare Plans'
    requests,         \* calls of client.chat.completions.create
    remote,           \* the remote call of this run: idle, pending, returned, raised
    sent,             \* messages of the request being made
    jamba_response,   \* string returned by run_jamba_query
    message,          \* handler local: the value selected for display
    escaped_message,  \* handler local: message after the replace chain
    display,          \* elements lines 111-161 have written in this run, in order
    fault             \* exception that left the script run, or "none"

vars == <<disk, cache, reads, loads, plans_data, selected_plans, question,
          phase, submits, requests, remote, sent, jamba_response, message,
          escaped_message, display, fault>>

-----------------------------------------------------------------------------
(* Bounds of the model *)

MaxTextLen == 3
MaxSubmits == 2
MaxReads == 2
MaxDiskVersion == 1
MaxChoices == 2

-----------------------------------------------------------------------------
(* Python str helpers *)

\* The character of s at position i, as a one-character str.
At(s, i) == SubSeq(s, i, i)

\* parts[lo] + parts[lo + 1] + ... + parts[hi], by halves.
RECURSIVE Concat(_, _, _)
Concat(parts, lo, hi) ==
    IF lo > hi THEN ""
    ELSE IF lo = hi THEN parts[lo]
    ELSE Concat(parts, lo, (lo + hi) \div 2) \o Concat(parts, ((lo + hi) \div 2) + 1, hi)

\* str.replace(old, new) for a one-character old (every call of the source):
\* each occurrence, left to right, becomes new.
Replace(s, old, new) ==
    LET F(i) == IF At(s, i) = old THEN new ELSE At(s, i)
    IN  Concat([i \in 1..Len(s) |-> F(i)], 1, Len(s))

\* The characters of the replace chain, in the order of lines 136-147.
SpecialChars == <<"$", "*", "_", "[", "]", "(", ")", "#", "+", "-", ".", "!">>

\* A plausible slip: the chain also escapes the backslash, after the others.
EscapeAlsoBackslash(m) ==
    LET RECURSIVE Chain(_, _)
        Chain(s, i) == IF i > Len(SpecialChars) THEN s
                       ELSE Chain(Replace(s, SpecialChars[i], "\\" \o SpecialChars[i]), i + 1)
    IN  Replace(Chain(m, 1), "\\", "\\\\")

\* escaped_message = message.replace("$", "\\$").replace("*", "\\*")...
Escape(m) ==
    Replace(Replace(Replace(Replace(Replace(Replace(
    Replace(Replace(Replace(Replace(Replace(Replace(m,
        "$", "\\$"), "*", "\\*"), "_", "\\_"), "[", "\\["),
        "]", "\\]"), "(", "\\("), ")", "\\)"), "#", "\\#"),
        "+", "\\+"), "-", "\\-"), ".", "\\."), "!", "\\!")

-----------------------------------------------------------------------------
(* Python values as they come out of json.loads.  One record shape for all *)
(* of them: t is the Python type, and only the field of that type is used. *)

JV(t, b, n, s, keys, items) ==
    [t |-> t, b |-> b, n |-> n, s |-> s, keys |-> keys, items |-> items]
JNull == JV("NoneType", FALSE, 0, "", <<>>, <<>>)
JBool(b) == JV("bool", b, 0, "", <<>>, <<>>)
JInt(n) == JV("int", FALSE, n, "", <<>>, <<>>)
JStr(s) == JV("str", FALSE, 0, s, <<>>, <<>>)
JList(items) == JV("list", FALSE, 0, "", <<>>, items)
\* A dict: keys in insertion order, items[i] the value of keys[i].
JDict(keys, items) == JV("dict", FALSE, 0, "", keys, items)

\* Index of key k in a dict's key list, 0 when absent.
KeyIndex(keys, k) ==
    IF \E i \in 1..Len(keys) : keys[i] = k
    THEN CHOOSE i \in 1..Len(keys) : keys[i] = k
    ELSE 0

\* d[k] = v on a dict under construction: a repeated key keeps its first
\* position and takes the last value.
DictSet(d, k, v) ==
    LET i == KeyIndex(d.keys, k)
    IN  IF i = 0 THEN JDict(Append(d.keys, k), Append(d.items, v))
        ELSE JDict(d.keys, [d.items EXCEPT ![i] = v])

Digits == <<"0", "1", "2", "3", "4", "5", "6", "7", "8", "9">>
IsDigit(c) == \E i \in 1..10 : Digits[i] = c
DigitVal(c) == (CHOOSE i \in 1..10 : Digits[i] = c) - 1

\* str(n) of an int.
RECURSIVE NatStr(_)
NatStr(n) == IF n < 10 THEN Digits[n + 1] ELSE NatStr(n \div 10) \o Digits[(n % 10) + 1]
IntStr(n) == IF n < 0 THEN "-" \o NatStr(-n) ELSE NatStr(n)

StartsWith(s, p) == Len(s) >= Len(p) /\ SubSeq(s, 1, Len(p)) = p
Drop(s, k) == SubSeq(s, k + 1, Len(s))
Contains(s, c) == \E i \in 1..(Len(s) - Len(c) + 1) : SubSeq(s, i, i + Len(c) - 1) = c

-----------------------------------------------------------------------------
(* json.loads, for documents over printable ASCII plus \n and \t whose     *)
(* numbers are integers and whose string escapes are \" \\ \/ \n \t.       *)

ParseFail == [ok |-> FALSE, v |-> JNull, rest |-> ""]
ParseOk(v, rest) == [ok |-> TRUE, v |-> v, rest |-> rest]

IsWs(c) == c \in {" ", "\t", "\n", "\r"}
RECURSIVE SkipWs(_)
SkipWs(s) == IF s # "" /\ IsWs(Head(s)) THEN SkipWs(Tail(s)) ELSE s

\* The character an escape letter stands for.
Unescape(e) ==
    CASE e = "\"" -> "\""
      [] e = "\\" -> "\\"
      [] e = "/" -> "/"
      [] e = "n" -> "\n"
      [] e = "t" -> "\t"
      [] OTHER -> ""

\* Length of the run of backslashes that ends just before position i.
BackslashRun(s, i) ==
    CHOOSE k \in 0..(i - 1) :
        /\ \A j \in (i - k)..(i - 1) : At(s, j) = "\\"
        /\ (k = i - 1 \/ At(s, i - k - 1) # "\\")

\* Position i of s starts an escape: a backslash not itself escaped.
StartsEscape(s, i) == At(s, i) = "\\" /\ BackslashRun(s, i) % 2 = 0

\* scanstring, strict: s starts after the opening quote.  The string ends
\* at the first quote that no backslash escapes; a raw control character or
\* an unknown escape before it is an error.
ScanString(s) ==
    LET Closing(i) == At(s, i) = "\"" /\ BackslashRun(s, i) % 2 = 0
        end == CHOOSE i \in 1..Len(s) : Closing(i) /\ \A j \in 1..(i - 1) : ~Closing(j)
        Bad(i) == \/ At(s, i) \in {"\n", "\t", "\r"}
                  \/ StartsEscape(s, i) /\ Unescape(At(s, i + 1)) = ""
        F(i) == IF StartsEscape(s, i) THEN ""
                ELSE IF i > 1 /\ StartsEscape(s, i - 1) THEN Unescape(At(s, i))
                ELSE At(s, i)
    IN  IF ~\E i \in 1..Len(s) : Closing(i) THEN ParseFail
        ELSE IF \E i \in 1..(end - 1) : Bad(i) THEN ParseFail
        ELSE ParseOk(JStr(Concat([i \in 1..(end - 1) |-> F(i)], 1, end - 1)), Drop(s, end))

\* Value of a run of digits, most significant first.
RECURSIVE DigitsVal(_, _)
DigitsVal(s, acc) ==
    IF s = "" THEN acc ELSE DigitsVal(Tail(s), (10 * acc) + DigitVal(Head(s)))

RECURSIVE DigitRun(_)
DigitRun(s) == IF s # "" /\ IsDigit(Head(s)) THEN 1 + DigitRun(Tail(s)) ELSE 0

\* NUMBER_RE restricted to integers: -?(0|[1-9][0-9]*)
ScanNumber(s) ==
    LET neg == StartsWith(s, "-")
        body == IF neg THEN Tail(s) ELSE s
        k == IF StartsWith(body, "0") THEN 1 ELSE DigitRun(body)
        n == DigitsVal(SubSeq(body, 1, k), 0)
    IN  IF k = 0 THEN ParseFail
        ELSE ParseOk(JInt(IF neg THEN -n ELSE n), Drop(body, k))

RECURSIVE ParseValue(_), ParseMembers(_, _), ParseElements(_, _)

\* scan_once: s has no leading whitespace.
ParseValue(s) ==
    IF s = "" THEN ParseFail
    ELSE LET c == Head(s) IN
         CASE c = "\"" -> ScanString(Tail(s))
           [] c = "{" ->
                LET s1 == SkipWs(Tail(s)) IN
                IF StartsWith(s1, "}") THEN ParseOk(JDict(<<>>, <<>>), Tail(s1))
                ELSE ParseMembers(s1, JDict(<<>>, <<>>))
           [] c = "[" ->
                LET s1 == SkipWs(Tail(s)) IN
                IF StartsWith(s1, "]") THEN ParseOk(JList(<<>>), Tail(s1))
                ELSE ParseElements(s1, <<>>)
           [] StartsWith(s, "null") -> ParseOk(JNull, Drop(s, 4))
           [] StartsWith(s, "true") -> ParseOk(JBool(TRUE), Drop(s, 4))
           [] StartsWith(s, "false") -> ParseOk(JBool(FALSE), Drop(s, 5))
           [] c = "-" \/ IsDigit(c) -> ScanNumber(s)
           [] OTHER -> ParseFail

\* JSONObject's loop: s is where a key's opening quote must be.
ParseMembers(s, d) ==
    IF ~StartsWith(s, "\"") THEN ParseFail
    ELSE LET k == ScanString(Tail(s))
             s1 == SkipWs(k.rest)
             v == ParseValue(SkipWs(Tail(s1)))
             s2 == SkipWs(v.rest)
             d2 == DictSet(d, k.v.s, v.v)
         IN  IF ~k.ok \/ ~StartsWith(s1, ":") THEN ParseFail
             ELSE IF ~v.ok THEN ParseFail
             ELSE IF StartsWith(s2, "}") THEN ParseOk(d2, Tail(s2))
             ELSE IF StartsWith(s2, ",") THEN ParseMembers(SkipWs(Tail(s2)), d2)
             ELSE ParseFail

\* JSONArray's loop: s is where the next element must start.
ParseElements(s, items) ==
    LET v == ParseValue(s)
        s2 == SkipWs(v.rest)
    IN  IF ~v.ok THEN ParseFail
        ELSE IF StartsWith(s2, "]") THEN ParseOk(JList(Append(items, v.v)), Tail(s2))
        ELSE IF StartsWith(s2, ",") THEN ParseElements(SkipWs(Tail(s2)), Append(items, v.v))
        ELSE ParseFail

\* json.loads(raw): [ok, v]; ok = FALSE stands for json.JSONDecodeError.
Loads(raw) ==
    LET r == ParseValue(SkipWs(raw))
    IN  IF r.ok /\ SkipWs(r.rest) = "" THEN [ok |-> TRUE, v |-> r.v]
        ELSE [ok |-> FALSE, v |-> JNull]

-----------------------------------------------------------------------------
(* json.dumps with its defaults, and str() / repr() *)

\* py_encode_basestring_ascii on the modelled alphabet.
JsonEscape(s) ==
    LET F(i) == CASE At(s, i) = "\"" -> "\\\""
                  [] At(s, i) = "\\" -> "\\\\"
                  [] At(s, i) = "\n" -> "\\n"
                  [] At(s, i) = "\t" -> "\\t"
                  [] OTHER -> At(s, i)
    IN  Concat([i \in 1..Len(s) |-> F(i)], 1, Len(s))

RECURSIVE Dumps(_), DumpsItems(_, _), DumpsMembers(_, _)
Dumps(v) ==
    CASE v.t = "NoneType" -> "null"
      [] v.t = "bool" -> IF v.b THEN "true" ELSE "false"
      [] v.t = "int" -> IntStr(v.n)
      [] v.t = "str" -> "\"" \o JsonEscape(v.s) \o "\""
      [] v.t = "list" -> "[" \o DumpsItems(v.items, 1) \o "]"
      [] v.t = "dict" -> "{" \o DumpsMembers(v, 1) \o "}"
DumpsItems(items, i) ==
    IF i > Len(items) THEN ""
    ELSE (IF i > 1 THEN ", " ELSE "") \o Dumps(items[i]) \o DumpsItems(items, i + 1)
DumpsMembers(d, i) ==
    IF i > Len(d.keys) THEN ""
    ELSE (IF i > 1 THEN ", " ELSE "") \o "\"" \o JsonEscape(d.keys[i]) \o "\": "
         \o Dumps(d.items[i]) \o DumpsMembers(d, i + 1)

\* repr() of a str: single quotes unless it holds ' and no ".
ReprBody(s, q) ==
    LET F(i) == CASE At(s, i) = "\\" -> "\\\\"
                  [] At(s, i) = "\n" -> "\\n"
                  [] At(s, i) = "\t" -> "\\t"
                  [] At(s, i) = q -> "\\" \o q
                  [] OTHER -> At(s, i)
    IN  Concat([i \in 1..Len(s) |-> F(i)], 1, Len(s))
StrRepr(s) ==
    LET q == IF Contains(s, "'") /\ ~Contains(s, "\"") THEN "\"" ELSE "'"
    IN  q \o ReprBody(s, q) \o q

RECURSIVE PyRepr(_), ReprItems(_, _), ReprMembers(_, _)
PyRepr(v) ==
    CASE v.t = "NoneType" -> "None"
      [] v.t = "bool" -> IF v.b THEN "True" ELSE "False"
      [] v.t = "int" -> IntStr(v.n)
      [] v.t = "str" -> StrRepr(v.s)
      [] v.t = "list" -> "[" \o ReprItems(v.items, 1) \o "]"
      [] v.t = "dict" -> "{" \o ReprMembers(v, 1) \o "}"
ReprItems(items, i) ==
    IF i > Len(items) THEN ""
    ELSE (IF i > 1 THEN ", " ELSE "") \o PyRepr(items[i]) \o ReprItems(items, i + 1)
ReprMembers(d, i) ==
    IF i > Len(d.keys) THEN ""
    ELSE (IF i > 1 THEN ", " ELSE "") \o StrRepr(d.keys[i]) \o ": "
         \o PyRepr(d.items[i]) \o ReprMembers(d, i + 1)

\* str(v): a str is itself, anything else its repr.
PyStr(v) == IF v.t = "str" THEN v.s ELSE PyRepr(v)

-----------------------------------------------------------------------------
(* The operators the handler applies to the parsed response.  Each gives   *)
(* [exc, v]: exc is "none" or the name of the exception Python raises.     *)

Ret(v) == [exc |-> "none", v |-> v]
Raise(e) == [exc |-> e, v |-> JNull]

\* k in x, for a str k.
PyContains(x, k) ==
    CASE x.t = "dict" -> Ret(JBool(KeyIndex(x.keys, k) # 0))
      [] x.t = "list" -> Ret(JBool(\E i \in 1..Len(x.items) : x.items[i] = JStr(k)))
      [] x.t = "str" -> Ret(JBool(Contains(x.s, k)))
      [] OTHER -> Raise("TypeError")

\* x[k], for a str k.
PyGetKey(x, k) ==
    CASE x.t = "dict" ->
            IF KeyIndex(x.keys, k) = 0 THEN Raise("KeyError")
            ELSE Ret(x.items[KeyIndex(x.keys, k)])
      [] OTHER -> Raise("TypeError")

\* len(x)
PyLen(x) ==
    CASE x.t = "dict" -> Ret(JInt(Len(x.keys)))
      [] x.t = "list" -> Ret(JInt(Len(x.items)))
      [] x.t = "str" -> Ret(JInt(Len(x.s)))
      [] OTHER -> Raise("TypeError")

\* x[0]; a dict out of json.loads has only str keys.
PyFirst(x) ==
    CASE x.t = "list" -> IF Len(x.items) = 0 THEN Raise("IndexError") ELSE Ret(x.items[1])
      [] x.t = "str" -> IF x.s = "" THEN Raise("IndexError") ELSE Ret(JStr(Head(x.s)))
      [] x.t = "dict" -> Raise("KeyError")
      [] OTHER -> Raise("TypeError")

\* A plausible slip: the alternate spelling is looked up first.
ChoiceMessageAltFirst(choice) ==
    LET inM == PyContains(choice, "messages")
        inA == PyContains(choice, "mesages")
    IN  IF inA.exc # "none" THEN Raise(inA.exc)
        ELSE IF inA.v.b THEN PyGetKey(choice, "mesages")
        ELSE IF inM.v.b THEN PyGetKey(choice, "messages")
        ELSE Ret(JStr(PyStr(choice)))

\* Lines 124-129: the field chain on the first entry.
ChoiceMessage(choice) ==
    LET inM == PyContains(choice, "messages")
        inA == PyContains(choice, "mesages")
    IN  IF inM.exc # "none" THEN Raise(inM.exc)
        ELSE IF inM.v.b THEN PyGetKey(choice, "messages")
        ELSE IF inA.v.b THEN PyGetKey(choice, "mesages")
        ELSE Ret(JStr(PyStr(choice)))

\* Lines 122-131: the value bound to message.
SelectMessage(parsed_response) ==
    LET has == PyContains(parsed_response, "choices")
        choices == PyGetKey(parsed_response, "choices")
        n == PyLen(choices.v)
        choice == PyFirst(choices.v)
    IN  IF has.exc # "none" THEN Raise(has.exc)
        ELSE IF ~has.v.b THEN Ret(JStr(PyStr(parsed_response)))
        ELSE IF choices.exc # "none" THEN Raise(choices.exc)
        ELSE IF n.exc # "none" THEN Raise(n.exc)
        ELSE IF ~(n.v.n > 0) THEN Ret(JStr(PyStr(parsed_response)))
        ELSE IF choice.exc # "none" THEN Raise(choice.exc)
        ELSE ChoiceMessage(choice.v)

-----------------------------------------------------------------------------
(* What the handler writes to the page *)

Element(kind, text) == [kind |-> kind, text |-> text]
ParseNotice == "Failed to parse JSON response. Raw response:"
NoResponseNotice == "No response from Jamba-1.5-Large."
CompleteNotice == "Comparison complete!"
ResponseHeading == "Model Response:"

Outcome(d, f, m, e) ==
    [display |-> d, fault |-> f, message |-> m, escaped_message |-> e]

\* A plausible slip: the raw text is shown through the answer path.
RawFallbackEscaped(raw) ==
    <<Element("error", ParseNotice), Element("write", Escape(raw))>>

\* Lines 156-158: the except branch.
RawFallback(raw) ==
    <<Element("error", ParseNotice), Element("write", "<pre>" \o raw \o "</pre>")>>

\* Lines 116-161: everything the handler does with run_jamba_query's string.
Render(raw) ==
    LET parsed == Loads(raw)
        sel == SelectMessage(parsed.v)
        esc == Escape(sel.v.s)
        done == <<Element("success", CompleteNotice)>>
    IN  IF raw = ""
        THEN Outcome(<<Element("error", NoResponseNotice)>> \o done, "none", JNull, "")
        ELSE IF ~parsed.ok
        THEN Outcome(RawFallback(raw) \o done, "none", JNull, "")
        ELSE IF sel.exc # "none"
        THEN Outcome(<<>>, sel.exc, JNull, "")
        ELSE IF sel.v.t # "str"
        THEN Outcome(<<Element("subheader", ResponseHeading)>>, "AttributeError", sel.v, "")
        ELSE Outcome(<<Element("subheader", ResponseHeading), Element("write", esc),
                       Element("expander", "View Full Response")>> \o done,
                     "none", sel.v, esc)

-----------------------------------------------------------------------------
(* Responses the remote service may give, and strings run_jamba_query may  *)
(* hand to the handler.                                                    *)

SeqsUpTo(S, n) == UNION {[1..k -> S] : k \in 0..n}

\* An entry of choices with the given optional fields; <<>> is "absent".
MakeEntry(m, a) ==
    JDict((IF m = <<>> THEN <<>> ELSE <<"messages">>) \o (IF a = <<>> THEN <<>> ELSE <<"mesages">>),
          m \o a)

\* The shape the client library's response.dict() has.
LibraryEntry ==
    JDict(<<"index", "message", "finish_reason">>,
          <<JInt(0),
            JDict(<<"role", "content">>, <<JStr("assistant"), JStr("Plan B: $20 co-pay (in-network).")>>),
            JStr("stop")>>)

ObjectEntries ==
    {MakeEntry(m, a) :
        m \in {<<>>, <<JStr("Plan A has a $500 deductible.")>>, <<JInt(5)>>, <<JNull>>},
        a \in {<<>>, <<JStr("test_value")>>, <<JDict(<<>>, <<>>)>>}}

OtherEntries ==
    {LibraryEntry, JInt(5), JNull, JBool(TRUE), JStr("x"), JStr("messages"),
     JStr("see mesages"), JList(<<JStr("messages")>>), JList(<<JStr("mesages")>>),
     JList(<<>>)}

LaterEntries == {MakeEntry(<<JStr("later!")>>, <<>>), JInt(1)}

ChoicesLists ==
    {JList(<<>>)} \cup
    {JList(<<e>> \o rest) : e \in ObjectEntries \cup OtherEntries,
                            rest \in SeqsUpTo(LaterEntries, MaxChoices - 1)}

ChoicesValues ==
    ChoicesLists \cup
    {JInt(5), JNull, JBool(FALSE), JStr("ab"), JStr(""), JDict(<<>>, <<>>),
     JDict(<<"0">>, <<JStr("x")>>)}

ResponseObjects ==
    {JDict(<<"choices">>, <<c>>) : c \in ChoicesValues} \cup
    {JDict(<<"id", "choices">>, <<JStr("r-1"), c>>) : c \in {JList(<<>>), JList(<<LibraryEntry>>)}} \cup
    {JDict(<<>>, <<>>), JDict(<<"id">>, <<JStr("r-1")>>)}

ResponseValues ==
    ResponseObjects \cup
    {JList(<<>>), JList(<<JStr("choices")>>), JList(<<JInt(1)>>), JStr("choices"),
     JStr("my choices"), JStr("hello"), JStr(""), JInt(5), JInt(-3), JInt(0), JNull,
     JBool(TRUE)}

\* Documents written by hand: other spacing, a repeated key, escapes.
HandWritten ==
    {"{\"choices\":[{\"messages\":\"Plan A has a $500 deductible.\"}]}",
     "{\"choices\":[{\"mesages\":\"test_value\"}]}",
     "{\"choices\":[]}",
     " {\"choices\" : [ {\"messages\" : \"a_b\"} ] } ",
     "{\"choices\":[{\"messages\":\"1\",\"messages\":\"2\"}]}",
     "{\"choices\":[{\"messages\":\"a\\\\b \\\"q\\\" it's\"}]}",
     "{\"choices\":[{\"mesages\":\"line\\nnext\"}]}",
     "{\"choices\":[],\"choices\":[{\"messages\":\"#1!\"}]}",
     "[\"it's\", \"choices\"]",
     "\n5\n"}

\* Strings json.loads rejects.
NotJson ==
    {"not json", "", " ", "{", "{\"choices\":", "{\"choices\":[}", "[1,]", "01",
     "nul", "{'choices': []}", "{\"choices\":[]} x", "\"open", "{\"a\" 1}",
     "{\"choices\":[{\"messages\":\"$5\"}],}", "-", "\"tab\there\""}

RawInputs == {Dumps(v) : v \in ResponseValues} \cup HandWritten \cup NotJson

-----------------------------------------------------------------------------
(* Plan Store: load_data under st.cache_data *)

\* The filenames of lines 16-20.
Filenames ==
    <<"HMO Blue Copayment.txt",
      "HMO Blue New England Basic Saver.txt",
      "HMO Blue Saver.txt",
      "HMO Blue Select $2000 Deductible with Copayment.txt",
      "Preferred Blue PPO $4500 Deductible.txt">>

\* Last position of character c in p, 0 when absent.
LastIndex(p, c) ==
    IF \E i \in 1..Len(p) : At(p, i) = c
    THEN CHOOSE i \in 1..Len(p) : At(p, i) = c /\ \A j \in (i + 1)..Len(p) : At(p, j) # c
    ELSE 0

\* os.path.splitext(p)[0]
Splitext(p) ==
    LET sep == LastIndex(p, "/")
        dot == LastIndex(p, ".")
    IN  IF dot > sep /\ \E i \in (sep + 1)..(dot - 1) : At(p, i) # "."
        THEN SubSeq(p, 1, dot - 1)
        ELSE p

\* What file.read() gives for a file of the data folder at a given version
\* of the folder.
FileText(filename, version) ==
    LET base == CASE filename = Filenames[1] -> "PCP visit: $25 copay."
                  [] filename = Filenames[2] -> "Deductible $2,000 (individual)"
                  [] filename = Filenames[3] -> "ER: $150 + 20%"
                  [] filename = Filenames[4] -> "<plan>Rx tier_1: $10</plan>"
                  [] filename = Filenames[5] -> "Out-of-network: 40% *after* deductible!"
    IN  IF version = 0 THEN base ELSE base \o " rev " \o IntStr(version)

PlanNames == {Splitext(Filenames[i]) : i \in 1..Len(Filenames)}
FilenameOf(name) == Filenames[CHOOSE i \in 1..Len(Filenames) : Splitext(Filenames[i]) = name]

\* The body of load_data on a readable folder: the dict it returns.
ReadPlans(version) == [name \in PlanNames |-> FileText(FilenameOf(name), version)]

NoPlans == [name \in {} |-> ""]

\* A plausible slip: the decorator is missing, every call reads the folder.
load_data_uncached(c, d, r, l) ==
    IF d.ok
    THEN [raised |-> FALSE, plans |-> ReadPlans(d.version),
          cache |-> [loaded |-> TRUE, plans |-> ReadPlans(d.version)],
          reads |-> r + 1, loads |-> l + 1]
    ELSE [raised |-> TRUE, plans |-> NoPlans, cache |-> c, reads |-> r + 1, loads |-> l]

\* Lines 11-27, a call of load_data(): with cache entry c, folder d and the
\* counters r and l, the value returned (or raised) and the new entry and
\* counters.  An exception is not cached.
load_data(c, d, r, l) ==
    IF c.loaded
    THEN [raised |-> FALSE, plans |-> c.plans, cache |-> c, reads |-> r, loads |-> l]
    ELSE IF d.ok
    THEN [raised |-> FALSE, plans |-> ReadPlans(d.version),
          cache |-> [loaded |-> TRUE, plans |-> ReadPlans(d.version)],
          reads |-> r + 1, loads |-> l + 1]
    ELSE [raised |-> TRUE, plans |-> NoPlans, cache |-> c, reads |-> r + 1, loads |-> l]

\* Lines 39-40 and 72: list(plans_data.keys()), in the order of insertion.
get_insurance_plans(pd) ==
    SelectSeq([i \in 1..Len(Filenames) |-> Splitext(Filenames[i])], LAMBDA n : n \in DOMAIN pd)

-----------------------------------------------------------------------------
(* Prompt Builder and Completion Client: run_jamba_query up to the call *)

SystemPrompt ==
    "You are a helpful assistant specializing in comparing Blue Cross Blue Shield insurance plans. Provide concise, accurate comparisons based on the plans given."

max_selections == 2

\* Line 47: the names of plan_names that are keys of plans_data, each once,
\* in the order of first occurrence (the keys of the dict comprehension).
RECURSIVE SelectedNames(_, _, _)
SelectedNames(plan_names, pd, acc) ==
    IF plan_names = <<>> THEN acc
    ELSE LET n == Head(plan_names)
         IN  SelectedNames(Tail(plan_names), pd,
                 IF n \in DOMAIN pd /\ ~\E i \in 1..Len(acc) : acc[i] = n
                 THEN Append(acc, n) ELSE acc)

\* Line 51: one segment.
Segment(name, details) == "<plan name=\"" \o name \o "\">" \o details \o "</plan>"

\* A plausible slip: the segments follow the store's order, not the selection's.
concatenated_details_store_order(plan_names, pd) ==
    LET names == SelectSeq(get_insurance_plans(pd),
                           LAMBDA n : \E i \in 1..Len(plan_names) : plan_names[i] = n)
        F(i) == (IF i > 1 THEN " " ELSE "") \o Segment(names[i], pd[names[i]])
    IN  Concat([i \in 1..Len(names) |-> F(i)], 1, Len(names))

\* Lines 50-53: " ".join of the segments.
concatenated_details(plan_names, pd) ==
    LET names == SelectedNames(plan_names, pd, <<>>)
        F(i) == (IF i > 1 THEN " " ELSE "") \o Segment(names[i], pd[names[i]])
    IN  Concat([i \in 1..Len(names) |-> F(i)], 1, Len(names))

\* Lines 56-59: the messages of the request.
Messages(q, plan_names, pd) ==
    <<[role |-> "system", content |-> SystemPrompt],
      [role |-> "user", content |-> q \o " " \o concatenated_details(plan_names, pd)]>>

\* A plausible slip: a second call after the first.
IssueRequestTwice(n) == n + 2

\* Lines 62-67: one call of client.chat.completions.create per run of
\* run_jamba_query; n counts the calls made so far.
IssueRequest(n) == n + 1

-----------------------------------------------------------------------------
(* The page: one session of the script *)

\* Line 84, the value the text input starts with; the input is free text.
DefaultQuestion == "Which plan has the lowest deductible?"
Questions == {DefaultQuestion, "Is [x] covered?"}

\* Sequences without repetition over S, of length at most n.
InjSeqs(S, n) ==
    {q \in SeqsUpTo(S, n) : \A i, j \in 1..Len(q) : i # j => q[i] # q[j]}

\* Replies of the remote service in the run of the page: response.dict()
\* in the library's shape, with either spelling of the field, and without
\* choices.  The other shapes are the renderer's inputs (RawInputs).
Replies ==
    {JDict(<<"id", "choices">>, <<JStr("r-1"), JList(<<LibraryEntry>>)>>),
     JDict(<<"choices">>, <<JList(<<MakeEntry(<<JStr("Plan A has a $500 deductible.")>>, <<>>)>>)>>),
     JDict(<<"choices">>, <<JList(<<MakeEntry(<<>>, <<JStr("test_value")>>)>>)>>),
     JDict(<<"choices">>, <<JList(<<>>)>>)}

\* Line 69: json.dumps(response.dict()).
ReplyString == [r \in Replies |-> Dumps(r)]
ReplyOutcome == [r \in Replies |-> Render(ReplyString[r])]

\* A plausible slip: the button alone decides.
ShouldQueryAnySelection(pressed, selection) == pressed

\* Line 111: st.button('Compare Plans') and len(selected_plans) > 0
ShouldQuery(pressed, selection) == pressed /\ Len(selection) > 0

\* The handler's part after run_jamba_query returned raw, with o = Render(raw).
Handle(raw, o) ==
    /\ jamba_response' = raw
    /\ display' = o.display
    /\ fault' = o.fault
    /\ message' = o.message
    /\ escaped_message' = o.escaped_message
    /\ phase' = "SHOWN"

\* One run of the script from its top with the widget values sel and q, up
\* to the end of the script or to the remote call: lines 27-114.
RunScript(pressed, sel, q) ==
    LET ld == load_data(cache, disk, reads, loads)
    IN  /\ ld.reads <= MaxReads
        /\ cache' = ld.cache /\ reads' = ld.reads /\ loads' = ld.loads
        /\ plans_data' = ld.plans
        /\ selected_plans' = sel /\ question' = q
        /\ jamba_response' = "" /\ message' = JNull /\ escaped_message' = ""
        /\ display' = <<>>
        /\ IF ld.raised
           THEN /\ phase' = "LOAD_FAILED" /\ fault' = "FileNotFoundError"
                /\ remote' = "idle" /\ sent' = <<>> /\ UNCHANGED requests
           ELSE IF ShouldQuery(pressed, sel)
           THEN /\ phase' = "QUERYING" /\ fault' = "none"
                /\ remote' = "pending"
                /\ sent' = Messages(q, sel, ld.plans)
                /\ requests' = IssueRequest(requests)
           ELSE /\ phase' = "AWAITING_INPUT" /\ fault' = "none"
                /\ remote' = "idle" /\ sent' = <<>> /\ UNCHANGED requests

StoreIdle ==
    /\ disk = [version |-> 0, ok |-> TRUE]
    /\ cache = [loaded |-> FALSE, plans |-> NoPlans]
    /\ reads = 0 /\ loads = 0
    /\ plans_data = NoPlans

HandlerIdle ==
    /\ jamba_response = "" /\ message = JNull /\ escaped_message = ""
    /\ display = <<>> /\ fault = "none"

SessionIdle ==
    /\ selected_plans = <<>> /\ question = DefaultQuestion
    /\ submits = 0 /\ requests = 0 /\ remote = "idle" /\ sent = <<>>

\* The process has started; no script run yet.
Init == StoreIdle /\ SessionIdle /\ HandlerIdle /\ phase = "STARTING"

Interactive == phase \in {"AWAITING_INPUT", "SHOWN"}

\* A browser opens or reloads the page: a run without a pressed button.
OpenPage ==
    /\ phase \in {"STARTING", "LOAD_FAILED"}
    /\ RunScript(FALSE, selected_plans, question)
    /\ UNCHANGED <<disk, submits>>

\* Line 75: the user adds an option to the multiselect.
AddPlan ==
    /\ Interactive
    /\ Len(selected_plans) < max_selections
    /\ \E i \in 1..Len(get_insurance_plans(plans_data)) :
          LET n == get_insurance_plans(plans_data)[i]
          IN  /\ \A j \in 1..Len(selected_plans) : selected_plans[j] # n
              /\ RunScript(FALSE, Append(selected_plans, n), question)
    /\ UNCHANGED <<disk, submits>>

\* Line 75: the user removes an option from the multiselect.
RemovePlan ==
    /\ Interactive
    /\ \E i \in 1..Len(selected_plans) :
          RunScript(FALSE,
                    SubSeq(selected_plans, 1, i - 1) \o SubSeq(selected_plans, i + 1, Len(selected_plans)),
                    question)
    /\ UNCHANGED <<disk, submits>>

\* Lines 95-104: the user changes the question.
EditQuestion ==
    /\ Interactive
    /\ \E q \in Questions \ {question} : RunScript(FALSE, selected_plans, q)
    /\ UNCHANGED <<disk, submits>>

\* Line 111: the user presses 'Compare Plans'.
PressCompare ==
    /\ Interactive
    /\ submits < MaxSubmits
    /\ submits' = submits + 1
    /\ RunScript(TRUE, selected_plans, question)
    /\ UNCHANGED disk

\* Lines 62-69 and 116-161: the call returns a response.
RemoteReturns ==
    /\ phase = "QUERYING"
    /\ \E r \in Replies : Handle(ReplyString[r], ReplyOutcome[r])
    /\ remote' = "returned" /\ sent' = <<>>
    /\ UNCHANGED <<disk, cache, reads, loads, plans_data, selected_plans, question,
                   submits, requests>>

\* Lines 62-67: the call raises (network, credentials, service); no except
\* clause encloses it, so the exception leaves the script run.
RemoteRaises ==
    /\ phase = "QUERYING"
    /\ remote' = "raised" /\ sent' = <<>>
    /\ fault' = "RemoteError" /\ phase' = "SHOWN"
    /\ UNCHANGED <<disk, cache, reads, loads, plans_data, selected_plans, question,
                   submits, requests, jamba_response, message, escaped_message, display>>

\* The data folder is redeployed with other contents.
EditDisk ==
    /\ disk.version < MaxDiskVersion
    /\ disk' = [disk EXCEPT !.version = @ + 1]
    /\ UNCHANGED <<cache, reads, loads, plans_data, selected_plans, question, phase,
                   submits, requests, remote, sent, jamba_response, message,
                   escaped_message, display, fault>>

\* A plan file becomes unreadable, or readable again.
ToggleDisk ==
    /\ disk' = [disk EXCEPT !.ok = ~@]
    /\ UNCHANGED <<cache, reads, loads, plans_data, selected_plans, question, phase,
                   submits, requests, remote, sent, jamba_response, message,
                   escaped_message, display, fault>>

Next ==
    \/ OpenPage \/ AddPlan \/ RemovePlan \/ EditQuestion \/ PressCompare
    \/ RemoteReturns \/ RemoteRaises \/ EditDisk \/ ToggleDisk

Spec == Init /\ [][Next]_vars

-----------------------------------------------------------------------------
(* The renderer alone: a string arrives, the handler renders it. *)

InitRender ==
    /\ StoreIdle /\ SessionIdle
    /\ phase = "QUERYING"
    /\ jamba_response \in RawInputs
    /\ message = JNull /\ escaped_message = ""
    /\ display = <<>> /\ fault = "none"

RenderResponse ==
    /\ phase = "QUERYING"
    /\ Handle(jamba_response, Render(jamba_response))
    /\ UNCHANGED <<disk, cache, reads, loads, plans_data, selected_plans, question,
                   submits, requests, remote, sent>>

SpecRender == InitRender /\ [][RenderResponse]_vars

-----------------------------------------------------------------------------
(* The replace chain alone *)

EscapeAlphabet == {"$", "*", "_", "[", "]", "(", ")", "#", "+", "-", ".", "!", "\\", "a"}

\* The str whose characters are the entries of the tuple t.
StrOf(t) == Concat(t, 1, Len(t))

Texts == {StrOf(t) : t \in SeqsUpTo(EscapeAlphabet, MaxTextLen)}

InitEscape ==
    /\ StoreIdle /\ SessionIdle
    /\ phase = "ESCAPING"
    /\ jamba_response = ""
    /\ message \in {JStr(t) : t \in Texts}
    /\ escaped_message = ""
    /\ display = <<>> /\ fault = "none"

\* Lines 135-148.
EscapeMessage ==
    /\ phase = "ESCAPING"
    /\ escaped_message' = Escape(message.s)
    /\ phase' = "ESCAPED"
    /\ UNCHANGED <<disk, cache, reads, loads, plans_data, selected_plans, question,
                   submits, requests, remote, sent, jamba_response, message, display,
                   fault>>

SpecEscape == InitEscape /\ [][EscapeMessage]_vars

-----------------------------------------------------------------------------
(* The prompt builder alone: run_jamba_query's arguments are any question   *)
(* and any selection, also of a name the store does not hold.               *)

UnknownPlan == "HMO Blue Platinum"
Selections == InjSeqs(PlanNames \cup {UnknownPlan}, max_selections)

InitBuild ==
    /\ \E v \in 0..MaxDiskVersion :
          /\ disk = [version |-> v, ok |-> TRUE]
          /\ cache = [loaded |-> TRUE, plans |-> ReadPlans(v)]
          /\ plans_data = ReadPlans(v)
    /\ reads = 1 /\ loads = 1
    /\ selected_plans \in Selections
    /\ question \in Questions
    /\ submits = 0 /\ requests = 0 /\ remote = "idle" /\ sent = <<>>
    /\ HandlerIdle
    /\ phase = "BUILDING"

\* Lines 47-59.
BuildPrompt ==
    /\ phase = "BUILDING"
    /\ sent' = Messages(question, selected_plans, plans_data)
    /\ phase' = "BUILT"
    /\ UNCHANGED <<disk, cache, reads, loads, plans_data, selected_plans, question,
                   submits, requests, remote, jamba_response, message,
                   escaped_message, display, fault>>

SpecBuild == InitBuild /\ [][BuildPrompt]_vars

-----------------------------------------------------------------------------
(* Properties *)

HasElement(kind, text) ==
    \E i \in 1..Len(display) : display[i] = Element(kind, text)
HasKind(kind) == \E i \in 1..Len(display) : display[i].kind = kind

\* SHOWING_RESULT: the answer is on the page.
ShowingResult == HasKind("subheader") /\ HasKind("write")
\* SHOWING_ERROR: an error notice is on the page.
ShowingError == HasKind("error")

\* C1: a submission that started a query ends in exactly one of the two
\* display states, SHOWING_RESULT or SHOWING_ERROR, whatever the outcome of
\* the remote call and of parsing.
C1_ExactlyOneDisplayState ==
    phase = "SHOWN" =>
        \/ ShowingResult /\ ~ShowingError
        \/ ShowingError /\ ~ShowingResult

\* C2: a failed remote call is caught in the handler and surfaced as the
\* "no response" notice; no exception leaves the handler.
C2_RemoteFailureSurfaced ==
    remote = "raised" =>
        /\ fault = "none"
        /\ HasElement("error", NoResponseNotice)

\* C3 as claimed: for a string that is not JSON the page holds the parse-error
\* notice and the raw string itself, nothing added or removed, and no answer.
C3_RawShownUnmodified ==
    (phase = "SHOWN" /\ ~Loads(jamba_response).ok) =>
        /\ HasElement("error", ParseNotice)
        /\ HasElement("write", jamba_response)
        /\ ~HasKind("subheader")

\* C3 as amended: for a non-empty string that is not JSON the page holds the
\* parse-error notice, then the raw string, character for character, between
\* "<pre>" and "</pre>", and no answer; for the empty string it holds the
\* "no response" notice and nothing of the raw string.
C3_RawShownInPre ==
    (phase = "SHOWN" /\ ~Loads(jamba_response).ok) =>
        /\ fault = "none"
        /\ ~HasKind("subheader") /\ ~HasKind("expander")
        /\ IF jamba_response # ""
           THEN /\ Len(display) >= 2
                /\ display[1] = Element("error", ParseNotice)
                /\ display[2].kind = "write"
                /\ Len(display[2].text) = Len(jamba_response) + 11
                /\ SubSeq(display[2].text, 1, 5) = "<pre>"
                /\ SubSeq(display[2].text, 6, 5 + Len(jamba_response)) = jamba_response
                /\ SubSeq(display[2].text, 6 + Len(jamba_response), Len(display[2].text)) = "</pre>"
                /\ \A i \in 3..Len(display) : display[i].kind \notin {"write", "error"}
           ELSE /\ display[1] = Element("error", NoResponseNotice)
                /\ ~HasKind("write")

C3_Witness ==
    /\ phase = "SHOWN"
    /\ jamba_response = "not json"
    /\ HasElement("error", ParseNotice)
    /\ HasElement("write", "<pre>not json</pre>")

\* C4: whatever the shape of a response that parses as JSON, rendering does
\* not raise and ends with some text displayed.
C4_ParsedNeverRaises ==
    (phase = "SHOWN" /\ Loads(jamba_response).ok) =>
        /\ fault = "none"
        /\ HasKind("write")

\* What the claim C5 says is selected from a parsed object p.
HasKey(v, k) == v.t = "dict" /\ \E i \in 1..Len(v.keys) : v.keys[i] = k
ValueOf(v, k) == v.items[CHOOSE i \in 1..Len(v.keys) : v.keys[i] = k]
ClaimedSelection(p) ==
    IF HasKey(p, "choices") /\ Len(ValueOf(p, "choices").items) > 0
    THEN LET first == ValueOf(p, "choices").items[1]
         IN  IF HasKey(first, "messages") THEN ValueOf(first, "messages")
             ELSE IF HasKey(first, "mesages") THEN ValueOf(first, "mesages")
             ELSE JStr(PyStr(first))
    ELSE JStr(PyStr(p))

\* C5: for every parsed response object (choices absent or a list), message
\* is the first entry's messages, else its mesages, else the string form of
\* the first entry, and the string form of the whole object when choices is
\* absent or empty.
C5_SelectionChain ==
    LET p == Loads(jamba_response)
    IN  (/\ phase = "SHOWN" /\ p.ok /\ p.v.t = "dict"
         /\ (HasKey(p.v, "choices") => ValueOf(p.v, "choices").t = "list"))
        => message = ClaimedSelection(p.v)

\* The escaped text as the claim C6 describes it: one pass over the input,
\* a backslash put before each of the twelve characters.
IsSpecial(c) == \E i \in 1..Len(SpecialChars) : SpecialChars[i] = c
OnePassEscape(s) ==
    LET F(i) == IF IsSpecial(At(s, i)) THEN "\\" \o At(s, i) ELSE At(s, i)
    IN  Concat([i \in 1..Len(s) |-> F(i)], 1, Len(s))
SpecialCount(s) == Cardinality({i \in 1..Len(s) : IsSpecial(At(s, i))})

\* C6: the escaped output is the input with exactly one backslash inserted
\* before every occurrence of the twelve characters and no other change; its
\* length is the input's plus the number of those occurrences.
C6_EscapeExact ==
    phase = "ESCAPED" =>
        /\ escaped_message = OnePassEscape(message.s)
        /\ Len(escaped_message) = Len(message.s) + SpecialCount(message.s)

C6_Witness ==
    /\ phase = "ESCAPED"
    /\ message.s = "\\$."
    /\ escaped_message = "\\\\$\\."

\* The prompt as the claim C7 describes it.
RECURSIVE ClaimedSegments(_)
ClaimedSegments(names) ==
    IF names = <<>> THEN <<>>
    ELSE (IF Head(names) \in DOMAIN cache.plans
          THEN <<"<plan name=\"" \o Head(names) \o "\">" \o cache.plans[Head(names)] \o "</plan>">>
          ELSE <<>>) \o ClaimedSegments(Tail(names))
RECURSIVE SpaceJoined(_)
SpaceJoined(parts) ==
    IF parts = <<>> THEN ""
    ELSE IF Len(parts) = 1 THEN parts[1]
    ELSE parts[1] \o " " \o SpaceJoined(Tail(parts))
Occurrences(s, p) ==
    Cardinality({i \in 1..(Len(s) - Len(p) + 1) : SubSeq(s, i, i + Len(p) - 1) = p})

\* C7: the user prompt is the question, a space, and the segments joined by
\* single spaces: one per selected name the store holds, in selection order,
\* wrapping the stored text; a name the store does not hold adds nothing.
C7_PromptExact ==
    phase = "BUILT" =>
        /\ Len(sent) = 2
        /\ sent[2].role = "user"
        /\ sent[2].content = question \o " " \o SpaceJoined(ClaimedSegments(selected_plans))
        /\ Occurrences(sent[2].content, "<plan name=\"")
              = Cardinality({i \in 1..Len(selected_plans) : selected_plans[i] \in DOMAIN cache.plans})

C7_Witness ==
    /\ phase = "BUILT"
    /\ selected_plans = <<UnknownPlan, "HMO Blue Saver">>
    /\ question = DefaultQuestion
    /\ disk.version = 0
    /\ sent[2].content =
          "Which plan has the lowest deductible? <plan name=\"HMO Blue Saver\">ER: $150 + 20%</plan>"

\* C8: requests never outnumber submissions; only a submission issues a
\* request, and exactly one; a failed call or any response issues none; the
\* request holds the system message and the current prompt and nothing else.
C8_OneRequestPerSubmission ==
    /\ [](requests <= submits)
    /\ [](phase = "QUERYING" =>
            /\ Len(sent) = 2
            /\ sent[1] = [role |-> "system", content |-> SystemPrompt]
            /\ sent[2] = [role |-> "user",
                          content |-> question \o " " \o concatenated_details(selected_plans, plans_data)])
    /\ [][requests' # requests =>
            /\ submits' = submits + 1
            /\ requests' = requests + 1
            /\ phase' = "QUERYING"]_vars
    /\ [][(phase # "QUERYING" /\ phase' = "QUERYING") => requests' = requests + 1]_vars
    /\ [][phase = "QUERYING" => requests' = requests]_vars

C8_Witness ==
    /\ phase = "SHOWN" /\ remote = "raised"
    /\ submits = 2 /\ requests = 2

\* C9: the plan mapping is read from storage by one call of load_data at
\* most; once loaded, no rerun and no submission reads storage again or
\* changes the names or the texts, whatever happens to the data folder.
C9_LoadedOnceImmutable ==
    /\ [](loads <= 1)
    /\ [](cache.loaded => loads = 1 /\ DOMAIN cache.plans = PlanNames)
    /\ [](phase \in {"AWAITING_INPUT", "QUERYING", "SHOWN"} =>
            cache.loaded /\ plans_data = cache.plans)
    /\ [][cache.loaded =>
            /\ cache' = cache /\ plans_data' = plans_data
            /\ reads' = reads /\ loads' = loads]_vars

C9_Witness ==
    /\ cache.loaded
    /\ cache.plans # ReadPlans(disk.version)
    /\ ~disk.ok
    /\ phase = "SHOWN" /\ requests = 2
    /\ plans_data = ReadPlans(0)

\* C10: pressing the button with no plan selected issues no request and
\* writes nothing, and the page stays in AWAITING_INPUT; a request is issued
\* only by a press with one or two plans selected.
C10_EmptySelectionNoOp ==
    /\ [][(submits' = submits + 1 /\ Len(selected_plans) = 0) =>
            /\ phase = "AWAITING_INPUT" /\ phase' = "AWAITING_INPUT"
            /\ requests' = requests /\ remote' = "idle" /\ sent' = <<>>
            /\ display' = <<>> /\ fault' = "none"]_vars
    /\ [][requests' # requests =>
            /\ submits' = submits + 1
            /\ Len(selected_plans) \in 1..max_selections]_vars

C10_Witness ==
    /\ submits = 2 /\ requests = 0
    /\ selected_plans = <<>>
    /\ phase = "AWAITING_INPUT" /\ display = <<>>

=============================================================================
